---- MODULE Spec2Model ----
(***************************************************************************)
(* AI-Tokenizer: the tokenization heuristic of src/src/App.js (in-browser  *)
(* variant) and the request handling of src/Frontend/App.js (network-      *)
(* backed variant), together with the React state of both App components.  *)
(* A JavaScript string is modelled as a sequence of one-character strings. *)
(***************************************************************************)
EXTENDS Integers, Sequences, FiniteSets, Bags, TLC

VARIABLES
    variant,        \* which tokenizeText a call exercises: "local" or "network"
    inputText,      \* argument of the tokenizeText call under study
    model,          \* argument of the tokenizeText call under study
    result,         \* value the call returned / its promise resolved to
    pc,             \* position of the call: "call", "await", "done"
    text,           \* useState("")
    selectedModel,  \* useState("GPT-4")
    showText,       \* useState(true)
    tokens,         \* useState([])
    loading,        \* useState(false), network variant only
    effectPending,  \* the [text, selectedModel] effect is scheduled and has not run
    requests,       \* bag of the tokenize requests sent and not yet settled
    latestResult,   \* what the most recent effect run produced, once it is known
    lastSettle      \* how the promise settled in the last step, "none" otherwise

vars == << variant, inputText, model, result, pc, text, selectedModel, showText,
           tokens, loading, effectPending, requests, latestResult, lastSettle >>

callVars == << variant, inputText, model, result, pc >>
appVars == << text, selectedModel, showText, tokens, effectPending, latestResult >>
netVars == << loading, requests, lastSettle >>

----------------------------------------------------------------------------
(* Bounds *)

MaxLen == 7         \* longest input of a tokenizeText call under study
MaxTyped == 2       \* longest text typed into the textarea
MaxInFlight == 2    \* most requests outstanding at once

----------------------------------------------------------------------------
(* Characters and strings *)

Letters == {"a", "b"}
Whitespace == {" "}
Punctuation == {".", ",", "!", "?", ";", ":"}
Alphabet == Letters \cup Whitespace \cup {"."}

IsSpace(c) == c \in Whitespace
IsPunct(c) == c \in Punctuation

StringsUpTo(n) == UNION { [1..k -> Alphabet] : k \in 0..n }

models == << "GPT-4", "GPT-3.5-Turbo", "GPT-4-Turbo", "Claude-3" >>
ModelNames == { models[k] : k \in 1..Len(models) }

\* values the textarea may hand to its onChange handler, and the ones used
\* where every value costs a request: empty, blank and not blank
TypedTexts == StringsUpTo(MaxTyped)
NetworkTexts == { << >>, << " " >>, << "a" >> }

examples == <<
    <<
       "H", "e", "l", "l", "o", ",", " ", "h", "o", "w", " ", "a",
       "r", "e", " ", "y", "o", "u", " ", "t", "o", "d", "a", "y",
       "?" >>,
    <<
       "T", "h", "e", " ", "q", "u", "i", "c", "k", " ", "b", "r",
       "o", "w", "n", " ", "f", "o", "x", " ", "j", "u", "m", "p",
       "s", " ", "o", "v", "e", "r", " ", "t", "h", "e", " ", "l",
       "a", "z", "y", " ", "d", "o", "g", "." >>,
    <<
       "A", "r", "t", "i", "f", "i", "c", "i", "a", "l", " ", "i",
       "n", "t", "e", "l", "l", "i", "g", "e", "n", "c", "e", " ",
       "i", "s", " ", "t", "r", "a", "n", "s", "f", "o", "r", "m",
       "i", "n", "g", " ", "t", "h", "e", " ", "w", "o", "r", "l",
       "d", "." >> >>

----------------------------------------------------------------------------
(* String.prototype.trim, String.prototype.split with the two patterns *)

RECURSIVE trimStart(_)
trimStart(s) ==
    IF s # << >> /\ IsSpace(Head(s)) THEN trimStart(Tail(s)) ELSE s

RECURSIVE trimEnd(_)
trimEnd(s) ==
    IF s # << >> /\ IsSpace(s[Len(s)])
    THEN trimEnd(SubSeq(s, 1, Len(s) - 1))
    ELSE s

trim(s) == trimEnd(trimStart(s))

\* index of the last character of the maximal whitespace run starting at i
RECURSIVE RunEnd(_, _)
RunEnd(s, i) ==
    IF i < Len(s) /\ IsSpace(s[i + 1]) THEN RunEnd(s, i + 1) ELSE i

\* inputText.split(/\s+/): the fragments between whitespace runs, an empty
\* fragment included where a run starts or ends the string
RECURSIVE SplitWhitespaceFrom(_, _, _, _)
SplitWhitespaceFrom(s, i, cur, acc) ==
    IF i > Len(s) THEN Append(acc, cur)
    ELSE IF IsSpace(s[i])
         THEN SplitWhitespaceFrom(s, RunEnd(s, i) + 1, << >>, Append(acc, cur))
         ELSE SplitWhitespaceFrom(s, i + 1, Append(cur, s[i]), acc)

SplitWhitespace(s) == SplitWhitespaceFrom(s, 1, << >>, << >>)

\* index of the last character of the maximal punctuation run starting at i
RECURSIVE PunctRunEnd(_, _)
PunctRunEnd(s, i) ==
    IF i < Len(s) /\ IsPunct(s[i + 1]) THEN PunctRunEnd(s, i + 1) ELSE i

\* variant of SeparatorEnd for the pattern /(\s+|[.,!?;:]+)/
SeparatorEndPunctRun(s, i) ==
    IF IsSpace(s[i]) THEN RunEnd(s, i)
    ELSE IF IsPunct(s[i]) THEN PunctRunEnd(s, i)
    ELSE 0

\* the separator /(\s+|[.,!?;:])/ matches at i: a whole whitespace run, or
\* one punctuation character; 0 when there is no match at i
SeparatorEnd(s, i) ==
    IF IsSpace(s[i]) THEN RunEnd(s, i)
    ELSE IF IsPunct(s[i]) THEN i
    ELSE 0

\* inputText.split(/(\s+|[.,!?;:])/): as above, and the capture group puts
\* every separator into the output between the fragments
RECURSIVE SplitCaptureFrom(_, _, _, _)
SplitCaptureFrom(s, i, cur, acc) ==
    IF i > Len(s) THEN Append(acc, cur)
    ELSE IF SeparatorEnd(s, i) # 0
         THEN SplitCaptureFrom(s, SeparatorEnd(s, i) + 1, << >>,
                               acc \o << cur, SubSeq(s, i, SeparatorEnd(s, i)) >>)
         ELSE SplitCaptureFrom(s, i + 1, Append(cur, s[i]), acc)

SplitCapture(s) == SplitCaptureFrom(s, 1, << >>, << >>)

\* .filter(part => part.length > 0)
NonEmptyParts(parts) == SelectSeq(parts, LAMBDA part : Len(part) > 0)

----------------------------------------------------------------------------
(* tokenizeText of the in-browser variant *)

\* variant of IsBlank that tests !inputText
IsBlankUntrimmed(t) == t = << >>

\* !inputText.trim()
IsBlank(t) == trim(t) = << >>

\* variant of Mid that uses Math.floor
MidFloor(word) == Len(word) \div 2

\* Math.ceil(word.length / 2)
Mid(word) == (Len(word) + 1) \div 2

\* the loop state: tokenizedResult and tokenId
EmptyResult == [tokenizedResult |-> << >>, tokenId |-> 1]

\* variant of Push that uses tokenId without incrementing it
PushSameId(st, t) ==
    [tokenizedResult |-> Append(st.tokenizedResult, [id |-> st.tokenId, text |-> t]),
     tokenId |-> st.tokenId]

Push(st, t) ==
    [tokenizedResult |-> Append(st.tokenizedResult, [id |-> st.tokenId, text |-> t]),
     tokenId |-> st.tokenId + 1]

\* body of words.forEach for "Claude-3"
PushWord(st, word) ==
    IF Len(word) > 4
    THEN Push(Push(st, SubSeq(word, 1, Mid(word))),
              SubSeq(word, Mid(word) + 1, Len(word)))
    ELSE Push(st, word)

\* variant of PushPart that keeps only the word fragments
PushPartWordsOnly(st, part) ==
    IF trim(part) # << >> /\ ~IsPunct(part[1]) THEN Push(st, part) ELSE st

\* body of parts.forEach for the other models
PushPart(st, part) ==
    IF trim(part) # << >> THEN Push(st, part) ELSE st

RECURSIVE ForEachWord(_, _)
ForEachWord(words, st) ==
    IF words = << >> THEN st
    ELSE ForEachWord(Tail(words), PushWord(st, Head(words)))

RECURSIVE ForEachPart(_, _)
ForEachPart(parts, st) ==
    IF parts = << >> THEN st
    ELSE ForEachPart(Tail(parts), PushPart(st, Head(parts)))

tokenizeText(t, m) ==
    IF IsBlank(t) THEN << >>
    ELSE IF m = "Claude-3"
         THEN ForEachWord(SplitWhitespace(t), EmptyResult).tokenizedResult
         ELSE ForEachPart(NonEmptyParts(SplitCapture(t)), EmptyResult).tokenizedResult

----------------------------------------------------------------------------
(* tokenizeText of the network-backed variant *)

\* model.toLowerCase()
toLowerCase(m) ==
    CASE m = "GPT-4" -> "gpt-4"
      [] m = "GPT-3.5-Turbo" -> "gpt-3.5-turbo"
      [] m = "GPT-4-Turbo" -> "gpt-4-turbo"
      [] m = "Claude-3" -> "claude-3"

\* the POST body, and where the call stands: awaiting fetch or response.json().
\* latest marks the request of the most recent effect run.
Request(t, m) ==
    [text |-> t, model |-> toLowerCase(m), strategy |-> "default",
     phase |-> "fetch", latest |-> TRUE]

Pending == BagToSet(requests)

Remove(reqs, r) == reqs (-) SetToBag({r})

\* a new effect run makes the request of the previous one a stale request
Stale(reqs) ==
    IF \E r \in BagToSet(reqs) : r.latest
    THEN LET r == CHOOSE q \in BagToSet(reqs) : q.latest
         IN  Remove(reqs, r) (+) SetToBag({[r EXCEPT !.latest = FALSE]})
    ELSE reqs

\* what the server may answer: bodies with and without a tokens field
Tok(i, c) == [id |-> i, text |-> << c >>]
ServerTokens == { << >>, << Tok(1, "a"), Tok(2, "b") >> }
ServerData ==
    { [hasTokens |-> TRUE, tokens |-> ts] : ts \in ServerTokens }
        \cup { [hasTokens |-> FALSE, tokens |-> << >>] }

\* data.tokens || []
TokensOf(data) == IF data.hasTokens THEN data.tokens ELSE << >>

\* variant of CatchValue that reports the failure as a token
CatchValueErrorToken == << Tok(0, "e") >>

\* the value returned from the catch block
CatchValue == << >>

Known(v) == [known |-> TRUE, value |-> v]
Unknown == [known |-> FALSE, value |-> << >>]

\* setLoading(true) and the fetch
SendRequest(t, m) ==
    /\ loading' = TRUE
    /\ requests' = Stale(requests) (+) SetToBag({Request(t, m)})

\* the finally block
Finally(r) ==
    /\ loading' = FALSE
    /\ requests' = Remove(requests, r)

\* the promise of request r resolves to v: the caller under study receives it,
\* or the App's .then(setTokens)
Deliver(r, v) ==
    IF pc = "await"
    THEN /\ result' = v
         /\ pc' = "done"
         /\ UNCHANGED << variant, inputText, model >>
         /\ UNCHANGED appVars
    ELSE /\ tokens' = v
         /\ latestResult' = IF r.latest THEN Known(v) ELSE latestResult
         /\ UNCHANGED << text, selectedModel, showText, effectPending >>
         /\ UNCHANGED callVars

FetchRejects(r) ==
    /\ r.phase = "fetch"
    /\ Finally(r)
    /\ lastSettle' = "rejected"
    /\ Deliver(r, CatchValue)

FetchNotOk(r) ==
    /\ r.phase = "fetch"
    /\ Finally(r)
    /\ lastSettle' = "notOk"
    /\ Deliver(r, CatchValue)

FetchOk(r) ==
    /\ r.phase = "fetch"
    /\ requests' = Remove(requests, r) (+) SetToBag({[r EXCEPT !.phase = "json"]})
    /\ lastSettle' = "none"
    /\ UNCHANGED loading
    /\ UNCHANGED callVars
    /\ UNCHANGED appVars

JsonRejects(r) ==
    /\ r.phase = "json"
    /\ Finally(r)
    /\ lastSettle' = "badBody"
    /\ Deliver(r, CatchValue)

JsonResolves(r, data) ==
    /\ r.phase = "json"
    /\ Finally(r)
    /\ lastSettle' = "ok"
    /\ Deliver(r, TokensOf(data))

----------------------------------------------------------------------------
(* A single tokenizeText call, in isolation *)

InitCall ==
    /\ \/ variant = "local" /\ inputText \in StringsUpTo(MaxLen)
       \/ variant = "network" /\ inputText \in StringsUpTo(MaxTyped)
    /\ model \in ModelNames
    /\ result = << >>
    /\ pc = "call"
    /\ text = << >>
    /\ selectedModel = "GPT-4"
    /\ showText = TRUE
    /\ tokens = << >>
    /\ loading = FALSE
    /\ effectPending = FALSE
    /\ requests = EmptyBag
    /\ latestResult = Unknown
    /\ lastSettle = "none"

CallLocal ==
    /\ pc = "call"
    /\ variant = "local"
    /\ result' = tokenizeText(inputText, model)
    /\ pc' = "done"
    /\ UNCHANGED << variant, inputText, model >>
    /\ UNCHANGED appVars
    /\ UNCHANGED netVars

CallNetwork ==
    /\ pc = "call"
    /\ variant = "network"
    /\ IF trim(inputText) = << >>
       THEN /\ result' = << >>
            /\ pc' = "done"
            /\ UNCHANGED netVars
       ELSE /\ SendRequest(inputText, model)
            /\ pc' = "await"
            /\ UNCHANGED << result, lastSettle >>
    /\ UNCHANGED << variant, inputText, model >>
    /\ UNCHANGED appVars

NextCall ==
    \/ CallLocal
    \/ CallNetwork
    \/ \E r \in Pending : FetchRejects(r)
    \/ \E r \in Pending : FetchNotOk(r)
    \/ \E r \in Pending : FetchOk(r)
    \/ \E r \in Pending : JsonRejects(r)
    \/ \E r \in Pending : \E data \in ServerData : JsonResolves(r, data)

SpecCall == InitCall /\ [][NextCall]_vars

----------------------------------------------------------------------------
(* The App component: event handlers, shared by the two variants *)

\* React runs the effect of a committed change before it handles the next
\* event; a handler may start a request only while the cap leaves room
CanHandle == ~effectPending /\ pc = "idle" /\ BagCardinality(requests) < MaxInFlight

InitApp ==
    /\ inputText = << >>
    /\ model = "GPT-4"
    /\ result = << >>
    /\ pc = "idle"
    /\ text = << >>
    /\ selectedModel = "GPT-4"
    /\ showText = TRUE
    /\ tokens = << >>
    /\ loading = FALSE
    /\ effectPending = TRUE
    /\ requests = EmptyBag
    /\ latestResult = Unknown
    /\ lastSettle = "none"

\* textarea onChange: setText(e.target.value)
TextChange(value) ==
    /\ CanHandle
    /\ value # text
    /\ text' = value
    /\ effectPending' = TRUE
    /\ lastSettle' = "none"
    /\ UNCHANGED << selectedModel, showText, tokens, latestResult >>
    /\ UNCHANGED << loading, requests >>
    /\ UNCHANGED callVars

\* select onChange: setSelectedModel(e.target.value)
ModelChange(m) ==
    /\ CanHandle
    /\ m # selectedModel
    /\ selectedModel' = m
    /\ effectPending' = TRUE
    /\ lastSettle' = "none"
    /\ UNCHANGED << text, showText, tokens, latestResult >>
    /\ UNCHANGED << loading, requests >>
    /\ UNCHANGED callVars

\* checkbox onChange: setShowText(e.target.checked)
ShowTextChange ==
    /\ CanHandle
    /\ showText' = ~showText
    /\ lastSettle' = "none"
    /\ UNCHANGED << text, selectedModel, tokens, effectPending, latestResult >>
    /\ UNCHANGED << loading, requests >>
    /\ UNCHANGED callVars

\* variant of handleClear that leaves the text in place
handleClearTokensOnly ==
    /\ CanHandle
    /\ tokens' = << >>
    /\ lastSettle' = "none"
    /\ UNCHANGED << text, selectedModel, showText, effectPending, latestResult >>
    /\ UNCHANGED << loading, requests >>
    /\ UNCHANGED callVars

handleClear ==
    /\ CanHandle
    /\ text' = << >>
    /\ tokens' = << >>
    /\ effectPending' = (text # << >>)
    /\ lastSettle' = "none"
    /\ UNCHANGED << selectedModel, showText, latestResult >>
    /\ UNCHANGED << loading, requests >>
    /\ UNCHANGED callVars

handleExampleClick(example) ==
    /\ CanHandle
    /\ text' = example
    /\ effectPending' = (text # example)
    /\ lastSettle' = "none"
    /\ UNCHANGED << selectedModel, showText, tokens, latestResult >>
    /\ UNCHANGED << loading, requests >>
    /\ UNCHANGED callVars

----------------------------------------------------------------------------
(* In-browser variant: the effect on [text, selectedModel] *)

EffectLocal ==
    /\ effectPending
    /\ tokens' = tokenizeText(text, selectedModel)
    /\ latestResult' = Known(tokens')
    /\ effectPending' = FALSE
    /\ lastSettle' = "none"
    /\ UNCHANGED << text, selectedModel, showText >>
    /\ UNCHANGED << loading, requests >>
    /\ UNCHANGED callVars

InitLocal == variant = "local" /\ InitApp

NextLocal ==
    \/ \E value \in TypedTexts : TextChange(value)
    \/ \E m \in ModelNames : ModelChange(m)
    \/ ShowTextChange
    \/ handleClear
    \/ \E k \in 1..Len(examples) : handleExampleClick(examples[k])
    \/ EffectLocal

SpecLocal == InitLocal /\ [][NextLocal]_vars

----------------------------------------------------------------------------
(* Network-backed variant: the effect on [text, selectedModel] *)

EffectNetwork ==
    /\ effectPending
    /\ IF trim(text) # << >>
       THEN /\ SendRequest(text, selectedModel)
            /\ latestResult' = Unknown
            /\ UNCHANGED tokens
       ELSE /\ tokens' = << >>
            /\ latestResult' = Known(<< >>)
            /\ requests' = Stale(requests)
            /\ UNCHANGED loading
    /\ effectPending' = FALSE
    /\ lastSettle' = "none"
    /\ UNCHANGED << text, selectedModel, showText >>
    /\ UNCHANGED callVars

InitNetwork == variant = "network" /\ InitApp

NextNetwork ==
    \/ \E value \in NetworkTexts : TextChange(value)
    \/ \E m \in ModelNames : ModelChange(m)
    \/ handleClear
    \/ \E k \in 1..Len(examples) : handleExampleClick(examples[k])
    \/ EffectNetwork
    \/ \E r \in Pending : FetchRejects(r)
    \/ \E r \in Pending : FetchNotOk(r)
    \/ \E r \in Pending : FetchOk(r)
    \/ \E r \in Pending : JsonRejects(r)
    \/ \E r \in Pending : \E data \in ServerData : JsonResolves(r, data)

SpecNetwork == InitNetwork /\ [][NextNetwork]_vars

----------------------------------------------------------------------------
(* Reference notions the properties are stated with *)

Texts(res) == [i \in 1..Len(res) |-> res[i].text]

RECURSIVE Concat(_)
Concat(ss) == IF ss = << >> THEN << >> ELSE Head(ss) \o Concat(Tail(ss))

AllWhitespace(s) == \A i \in 1..Len(s) : IsSpace(s[i])
HasWhitespace(s) == \E i \in 1..Len(s) : IsSpace(s[i])
HasPunct(s) == \E i \in 1..Len(s) : IsPunct(s[i])
WithoutWhitespace(s) == SelectSeq(s, LAMBDA c : ~IsSpace(c))

\* positions where a maximal run of non-whitespace characters starts, and
\* the length of the run that starts there
RunStarts(s) ==
    { i \in 1..Len(s) : ~IsSpace(s[i]) /\ (i = 1 \/ IsSpace(s[i - 1])) }
RunLen(s, i) ==
    CHOOSE n \in 1..Len(s) :
        /\ i + n - 1 <= Len(s)
        /\ \A j \in i..(i + n - 1) : ~IsSpace(s[j])
        /\ (i + n > Len(s) \/ IsSpace(s[i + n]))

LocalDone == pc = "done" /\ variant = "local"
Aggressive == model = "Claude-3"

----------------------------------------------------------------------------
(* Properties of a tokenizeText call *)

\* C1: for an empty or whitespace-only input and any model, tokenizeText
\* returns the empty sequence, and the network-backed variant does so at once,
\* without sending a request or touching the loading flag.
C1_EmptyInputNoTokens ==
    (pc # "call" /\ AllWhitespace(inputText)) =>
        /\ pc = "done"
        /\ result = << >>
        /\ requests = EmptyBag
        /\ loading = FALSE
        /\ lastSettle = "none"

C1_Witness ==
    /\ pc = "done"
    /\ variant = "network"
    /\ Len(inputText) = 1
    /\ AllWhitespace(inputText)
    /\ result = << >>

\* C2: the i-th token returned by the local tokenizeText has id i, under
\* both strategies.
C2_SequentialIds ==
    LocalDone => \A i \in 1..Len(result) : result[i].id = i

C2_Witness ==
    /\ LocalDone
    /\ Aggressive
    /\ Len(result) >= 3
    /\ \E i \in RunStarts(inputText) : RunLen(inputText, i) > 4

\* C3: under the punctuation-based strategy the token texts, concatenated in
\* order, are the input with its whitespace removed.
C3_ConcatIsNonWhitespace ==
    (LocalDone /\ ~Aggressive) =>
        Concat(Texts(result)) = WithoutWhitespace(inputText)

C3_Witness ==
    /\ LocalDone
    /\ ~Aggressive
    /\ HasWhitespace(inputText)
    /\ HasPunct(inputText)
    /\ Len(result) >= 3
    /\ Concat(Texts(result)) # inputText

\* C4: under the aggressive strategy each word of the whitespace split
\* contributes, in order, itself when it has at most 4 characters, and else
\* its first ceil(len/2) characters followed by the rest.
HalfUp(n) == IF n % 2 = 0 THEN n \div 2 ELSE (n \div 2) + 1
WordTokens(word) ==
    IF Len(word) <= 4 THEN << word >>
    ELSE << SubSeq(word, 1, HalfUp(Len(word))),
            SubSeq(word, HalfUp(Len(word)) + 1, Len(word)) >>
C4_WordContributions ==
    (LocalDone /\ Aggressive /\ ~AllWhitespace(inputText)) =>
        LET words == SplitWhitespace(inputText)
        IN  Texts(result) =
                Concat([k \in 1..Len(words) |-> WordTokens(words[k])])

C4_Witness ==
    /\ LocalDone
    /\ Aggressive
    /\ \E i \in RunStarts(inputText) : RunLen(inputText, i) = 5
    /\ \E i \in RunStarts(inputText) : RunLen(inputText, i) <= 4
    /\ Len(result) = 3
    /\ Len(result[1].text) = 3

\* C5: under the punctuation-based strategy no token is empty or holds
\* whitespace, and every punctuation character of the input comes back as a
\* token of its own, one character long.
PunctCount(s) == Cardinality({ i \in 1..Len(s) : IsPunct(s[i]) })
C5_PunctuationTokens ==
    (LocalDone /\ ~Aggressive) =>
        /\ \A i \in 1..Len(result) :
              /\ result[i].text # << >>
              /\ ~HasWhitespace(result[i].text)
              /\ HasPunct(result[i].text) => Len(result[i].text) = 1
        /\ Cardinality({ i \in 1..Len(result) : HasPunct(result[i].text) })
              = PunctCount(inputText)

C5_Witness ==
    /\ LocalDone
    /\ ~Aggressive
    /\ \E i \in 1..(Len(inputText) - 2) :
          /\ ~IsSpace(inputText[i]) /\ ~IsPunct(inputText[i])
          /\ IsPunct(inputText[i + 1])
          /\ IsPunct(inputText[i + 2])
    /\ Len(result) >= 3

\* C10: under the aggressive strategy, for an input that is not blank, no
\* token is empty or holds whitespace, and there is one token per run of at
\* most 4 non-whitespace characters and two per longer run.
C10_AggressiveNoEmptyTokens ==
    (LocalDone /\ Aggressive /\ ~AllWhitespace(inputText)) =>
        /\ \A i \in 1..Len(result) :
              result[i].text # << >> /\ ~HasWhitespace(result[i].text)
        /\ Len(result) =
              Cardinality({ i \in RunStarts(inputText) : RunLen(inputText, i) <= 4 })
              + 2 * Cardinality({ i \in RunStarts(inputText) : RunLen(inputText, i) > 4 })

----------------------------------------------------------------------------
(* Properties of the App component *)

Failures == {"rejected", "notOk", "badBody"}

\* C6: when a request fails (fetch rejects, the response is not ok, or the
\* body does not parse) the promise resolves to the empty list, which becomes
\* the tokens state, and the failed request is dropped without a new one
\* being sent.
C6_FailureYieldsEmptyTokens ==
    [][lastSettle' \in Failures =>
          /\ tokens' = << >>
          /\ \E r \in Pending : requests' = Remove(requests, r)]_vars

C6_Witness ==
    /\ lastSettle \in Failures
    /\ trim(text) # << >>
    /\ ~effectPending
    /\ requests = EmptyBag
    /\ tokens = << >>

\* C7: once no request is outstanding, the tokens state is the result of the
\* request sent for the current text and model, and is empty when the
\* current text is blank.
C7_TokensOfLatestRun ==
    (requests = EmptyBag /\ ~effectPending) =>
        /\ latestResult.known
        /\ tokens = latestResult.value
        /\ AllWhitespace(text) => tokens = << >>

\* C8: in the in-browser variant, once the effect of the latest change has
\* run, tokens is tokenizeText(text, selectedModel); toggling show-text
\* changes none of text, selectedModel and tokens.
C8_TokensCurrent ==
    ~effectPending => tokens = tokenizeText(text, selectedModel)
C8_TokensRecomputed ==
    /\ []C8_TokensCurrent
    /\ [][showText' # showText => UNCHANGED << text, selectedModel, tokens >>]_vars

C8_Witness ==
    /\ ~effectPending
    /\ showText = FALSE
    /\ selectedModel = "Claude-3"
    /\ text = examples[2]
    /\ Len(tokens) > Len(SplitWhitespace(text))

\* C9: loading is true exactly while some request has been sent and has not
\* yet settled.
C9_LoadingWhileOutstanding ==
    loading = (requests # EmptyBag)

====
